---------------------------- MODULE Spec2Model ----------------------------
(***************************************************************************)
(* A model of src/pre/dark2flash.py: the per-frame blob detector           *)
(* (preprocess_image, process_image), the cross-frame deduplication        *)
(* (postprocess_coordinates) and the batch run (main); and of the manual   *)
(* accept/reject viewer of src/post/verif-eye.py.                          *)
(*                                                                         *)
(* Five specifications share the variables:                                *)
(*   SpecDedup   postprocess_coordinates applied to bounded pools          *)
(*   SpecDetect  process_image applied to bounded intensity maps           *)
(*   SpecCrop    preprocess_image applied to bounded frames and margins    *)
(*   Spec        a run of main over an input folder                        *)
(*   SpecViewer  a session of the viewer over a folder and its '_rejected'  *)
(*                                                                         *)
(* Python sequences are 0-based; the model's sequences are 1-based, so     *)
(* index i of the code is index i+1 here.                                  *)
(***************************************************************************)
EXTENDS Integers, Sequences, FiniteSets, TLC

VARIABLES
    all_coordinates,   \* the candidate pool: list of {filename, coordinates}
    param,             \* the Namespace of parameters
    dd,                \* SpecDedup: outcome of postprocess_coordinates on the pool
    dd_again,          \* SpecDedup: outcome of a second call, on the survivors
    dd_perm,           \* SpecDedup: a reordering of the pool and its outcome
    dd_more,           \* SpecDedup: the outcome on a pool that holds the pool
    image,             \* SpecDetect: the intensity map handed to process_image
    shape,             \* SpecDetect: how the intensity map was drawn
    det,               \* SpecDetect: what process_image computed
    frame,             \* SpecCrop: the image handed to preprocess_image
    blurred_image,     \* SpecCrop: the outcome of preprocess_image
    pc,                \* Spec: where the run of main is
    args,              \* Spec: the command line (action, symlinks, threshold)
    input_is_dir,      \* Spec: os.path.isdir(input_folder)
    entries,           \* Spec: the entries of the input folder, by filename
    flash,             \* Spec: the '_flash' folder: [exists, files]
    todo,              \* Spec: filenames os.listdir gave, not yet iterated
    passed,            \* Spec: filenames the per-frame loop has gone through
    valid_images,      \* Spec: the list postprocess_coordinates returned
    next_valid,        \* Spec: position of the materialization loop
    post_calls,        \* Spec: calls of postprocess_coordinates so far
    real_images,       \* Spec: the image files the symlinks point to, on disk
    viewer,            \* SpecViewer: where the session of the viewer is
    REJECTED_BY_DEFAULT, \* SpecViewer: the global set at line 121
    folder,            \* SpecViewer: names of the image files in the folder
    rejected_folder,   \* SpecViewer: names of the image files in '_rejected'
    images,            \* SpecViewer: the list of (name, status)
    idx,               \* SpecViewer: index of the image shown, 0-based
    use_jet,           \* SpecViewer: the colormap toggle
    event              \* SpecViewer: the last event handled

dedup_vars == <<dd, dd_again, dd_perm, dd_more>>
detect_vars == <<image, shape, det>>
crop_vars == <<frame, blurred_image>>
main_vars ==
    <<pc, args, input_is_dir, entries, flash, todo, passed, valid_images,
      next_valid, post_calls, real_images>>
viewer_vars ==
    <<viewer, REJECTED_BY_DEFAULT, folder, rejected_folder, images, idx,
      use_jet, event>>
vars ==
    <<all_coordinates, param, dedup_vars, detect_vars, crop_vars, main_vars,
      viewer_vars>>

(***************************************************************************)
(* Bounds of the model.                                                    *)
(***************************************************************************)
MaxCandidates == 3    \* candidates in a pool of SpecDedup
MaxRows == 3          \* rows of an intensity map of SpecDetect
MaxCols == 3          \* columns of an intensity map of SpecDetect
MaxLit == 3           \* pixels at or above the threshold in a drawn map
MaxMinBlob == 2       \* min_blob_size of SpecDetect is 1..MaxMinBlob
MaxMaxBlob == 2       \* max_blob of SpecDetect is 1..MaxMaxBlob
FrameHeight == 162    \* height of the readable frames of Spec
FrameWidth == 64      \* width of the readable frames of Spec
MaxHeight == 3        \* height of a frame of SpecCrop is 1..MaxHeight
MaxWidth == 3         \* width of a frame of SpecCrop is 1..MaxWidth
MaxMargin == 2        \* crop margins of SpecCrop are 0..MaxMargin
MaxImages == 3        \* image names of SpecViewer are 1..MaxImages

NotRun == [status |-> "not run"]

\* the variables of a run of main, in the specifications that run none
MainIdle ==
    /\ pc = "idle"
    /\ args = NotRun
    /\ input_is_dir = FALSE
    /\ entries = <<>>
    /\ flash = [exists |-> FALSE, files |-> <<>>]
    /\ todo = {}
    /\ passed = {}
    /\ valid_images = <<>>
    /\ next_valid = 1
    /\ post_calls = 0
    /\ real_images = {}

\* the variables of the viewer, in the specifications that open none
ViewerIdle ==
    /\ viewer = "idle"
    /\ REJECTED_BY_DEFAULT = FALSE
    /\ folder = {}
    /\ rejected_folder = {}
    /\ images = <<>>
    /\ idx = 0
    /\ use_jet = FALSE
    /\ event = "none"

\* the variables of SpecCrop, in the other specifications
CropIdle == frame = NotRun /\ blurred_image = NotRun

(***************************************************************************)
(* Generic helpers for Python lists.                                       *)
(***************************************************************************)
Range(s) == {s[i] : i \in 1..Len(s)}

\* the lists over S of length at most n
SeqsUpTo(S, n) == UNION {[1..k -> S] : k \in 0..n}

\* list(a_set): a list holding each element once, in an arbitrary order
ListsOf(S) == {s \in [1..Cardinality(S) -> S] : Range(s) = S}

\* the sublist of s at the indices in keep, in order
RECURSIVE Pick(_, _, _)
Pick(s, keep, i) ==
    IF i > Len(s) THEN <<>>
    ELSE (IF i \in keep THEN <<s[i]>> ELSE <<>>) \o Pick(s, keep, i + 1)

(***************************************************************************)
(* main's parameters (dark2flash.py 88-98); threshold is args.threshold,   *)
(* whose default is 48.                                                    *)
(***************************************************************************)
DefaultThreshold == 48
MainParam ==
    [crop_top |-> 16, crop_bottom |-> 144, crop_left |-> 16, crop_right |-> 16,
     gaussian_radius |-> 2, threshold |-> DefaultThreshold, min_blob_size |-> 8,
     max_blob |-> 5, distance_cutoff |-> 16]

(***************************************************************************)
(* postprocess_coordinates (dark2flash.py 47-74).                          *)
(***************************************************************************)
\* lines 49-53: flattened_coordinates, a list of (filename, coord)
RECURSIVE Flatten(_)
Flatten(all) ==
    IF all = <<>> THEN <<>>
    ELSE [i \in 1..Len(Head(all).coordinates) |->
             <<Head(all).filename, Head(all).coordinates[i]>>]
         \o Flatten(Tail(all))

\* cdist's Euclidean distance between two coordinates, squared
Dist2(a, b) == (a[1] - b[1]) * (a[1] - b[1]) + (a[2] - b[2]) * (a[2] - b[2])

\* (mutant of Closer: a pair at exactly the cutoff is close too)
CloserOrAt(a, b, cutoff) == cutoff >= 0 /\ Dist2(a, b) <= cutoff * cutoff

\* line 64: distances[i, j] < param.distance_cutoff.  Coordinates and the
\* cutoff are integers, so sqrt(d2) < c is d2 < c*c for c >= 0 and false
\* for c < 0.
Closer(a, b, cutoff) == cutoff > 0 /\ Dist2(a, b) < cutoff * cutoff

\* (mutants of ToRemove: only the later candidate of a close pair is marked;
\* only neighbours in the list are compared; only candidates of different
\* frames are compared)
ToRemoveAcrossFrames(flat, cutoff) ==
    UNION {{pr[1], pr[2]} :
        pr \in {q \in (1..Len(flat)) \X (1..Len(flat)) :
                   /\ q[1] < q[2]
                   /\ flat[q[1]][1] # flat[q[2]][1]
                   /\ Closer(flat[q[1]][2], flat[q[2]][2], cutoff)}}
ToRemoveLater(flat, cutoff) ==
    {j \in 1..Len(flat) :
        \E i \in 1..(j - 1) : Closer(flat[i][2], flat[j][2], cutoff)}
ToRemoveAdjacent(flat, cutoff) ==
    UNION {{i, i + 1} :
        i \in {k \in 1..(Len(flat) - 1) :
                   Closer(flat[k][2], flat[k + 1][2], cutoff)}}

\* lines 60-66: the indices marked by the double loop over i < j
ToRemove(flat, cutoff) ==
    UNION {{pr[1], pr[2]} :
        pr \in {q \in (1..Len(flat)) \X (1..Len(flat)) :
                   q[1] < q[2] /\ Closer(flat[q[1]][2], flat[q[2]][2], cutoff)}}

\* (mutant of ValidCoordinates: the marked candidates are the ones kept)
KeepMarked(flat, to_remove) == Pick(flat, to_remove, 1)

\* line 69: valid_coordinates
ValidCoordinates(flat, to_remove) ==
    Pick(flat, (1..Len(flat)) \ to_remove, 1)

\* line 72: filenames_with_valid_coords
FilenamesWithValidCoords(valid) == {valid[k][1] : k \in 1..Len(valid)}

\* (mutant of postprocess_coordinates: every frame of the pool is returned
\* unless one of its candidates was removed)
PostprocessKeepsUnmarkedFrames(all, p) ==
    LET flat == Flatten(all)
        to_remove == ToRemove(flat, p.distance_cutoff)
        valid == ValidCoordinates(flat, to_remove)
    IN  IF Len(flat) = 0
        THEN [status |-> "ValueError", flat |-> flat, to_remove |-> {},
              valid_coordinates |-> <<>>, filenames |-> {}]
        ELSE [status |-> "returned", flat |-> flat, to_remove |-> to_remove,
              valid_coordinates |-> valid,
              filenames |->
                  {all[k].filename : k \in 1..Len(all)}
                      \ {flat[i][1] : i \in to_remove}]

\* The call as a whole.  With no candidate at all, np.array([]) is
\* 1-dimensional and cdist raises ValueError (line 57): the call does not
\* return.  Otherwise it returns list(filenames_with_valid_coords), whose
\* order is arbitrary: valid_images is chosen by the caller among
\* ListsOf(filenames).
postprocess_coordinates(all, p) ==
    LET flat == Flatten(all)
        to_remove == ToRemove(flat, p.distance_cutoff)
        valid == ValidCoordinates(flat, to_remove)
    IN  IF Len(flat) = 0
        THEN [status |-> "ValueError", flat |-> flat, to_remove |-> {},
              valid_coordinates |-> <<>>, filenames |-> {}]
        ELSE [status |-> "returned", flat |-> flat, to_remove |-> to_remove,
              valid_coordinates |-> valid,
              filenames |-> FilenamesWithValidCoords(valid)]

\* a call and the list it returns (<<>> when it raised)
Calls(all, p) ==
    LET r == postprocess_coordinates(all, p)
    IN  {[out |-> r, valid_images |-> vi] : vi \in ListsOf(r.filenames)}

(***************************************************************************)
(* process_image (dark2flash.py 24-44).  An intensity map is a record      *)
(* [rows, cols, px] with px[<<row, col>>] the 8-bit intensity.             *)
(***************************************************************************)
PixelsOf(rows, cols) == (0..(rows - 1)) \X (0..(cols - 1))

\* (mutant of Binarize: a pixel at the threshold is foreground)
BinarizeAtOrAbove(img, thresh) ==
    [q \in DOMAIN img.px |-> IF img.px[q] >= thresh THEN 255 ELSE 0]

\* line 27: cv2.threshold(image, thresh, 255, cv2.THRESH_BINARY):
\* dst = 255 where src > thresh, 0 elsewhere
Binarize(img, thresh) ==
    [q \in DOMAIN img.px |-> IF img.px[q] > thresh THEN 255 ELSE 0]

\* (mutant of Neighbours: the 3 x 3 square, pixels are connected through a
\* shared corner too)
NeighboursAround(q) ==
    {<<q[1] + dr, q[2] + dc>> : dr \in {0 - 1, 0, 1}, dc \in {0 - 1, 0, 1}}
        \ {q}

\* line 30: scipy.ndimage.label with its default structuring element, the
\* 2-D cross: pixels are connected through a shared edge
Neighbours(q) ==
    {<<q[1] - 1, q[2]>>, <<q[1] + 1, q[2]>>, <<q[1], q[2] - 1>>, <<q[1], q[2] + 1>>}

\* Recursive definitions over sets are functions here, and the sets they
\* pass on are written {q \in S : ...}, which TLC enumerates at once.
PixelSets == SUBSET (Int \X Int)

\* the connected component of a[2] that contains a[1]
Grow[a \in PixelSets \X PixelSets] ==
    LET N == {q \in a[2] : q \in a[1] \/ Neighbours(q) \cap a[1] # {}}
    IN  IF N = a[1] THEN a[1] ELSE Grow[<<N, a[2]>>]

\* the first pixel of S in scan order (row by row)
FirstPixel(S) ==
    CHOOSE q \in S :
        \A r \in S : q[1] < r[1] \/ (q[1] = r[1] /\ q[2] <= r[2])

\* line 30: the components, label 1 first; labels follow the scan order of
\* the components' first pixels
Label[fg \in PixelSets] ==
    IF fg = {} THEN <<>>
    ELSE LET c == Grow[<<{FirstPixel(fg)}, fg>>]
         IN  <<c>> \o Label[{q \in fg : q \notin c}]

\* the sums of the rows (k = 1) and of the columns (k = 2) of the pixels of S
SumOver[S \in PixelSets] ==
    IF S = {} THEN <<0, 0>>
    ELSE LET q == CHOOSE r \in S : TRUE
             rest == SumOver[{r \in S : r # q}]
         IN  <<q[1] + rest[1], q[2] + rest[2]>>

\* (mutant of Centroid: row and column exchanged)
CentroidRowFirst(blob) ==
    <<SumOver[blob][1] \div Cardinality(blob),
      SumOver[blob][2] \div Cardinality(blob)>>

\* (mutant of Centroid: the means are rounded to the nearest integer)
CentroidRounded(blob) ==
    <<(2 * SumOver[blob][2] + Cardinality(blob)) \div (2 * Cardinality(blob)),
      (2 * SumOver[blob][1] + Cardinality(blob)) \div (2 * Cardinality(blob))>>

\* lines 37-38: center_of_mass gives (mean row, mean column); the candidate
\* is (int(mean column), int(mean row)), and int() truncates
Centroid(blob) ==
    <<SumOver[blob][2] \div Cardinality(blob),
      SumOver[blob][1] \div Cardinality(blob)>>

\* (mutant of PassesSizeFilter: a blob of exactly min_blob_size is dropped)
LargerThanMin(blob, p) == Cardinality(blob) > p.min_blob_size

\* line 36: np.sum(blob_mask) >= param.min_blob_size
PassesSizeFilter(blob, p) == Cardinality(blob) >= p.min_blob_size

\* lines 33-38: the centroids of the blobs that pass the size filter, in
\* label order
RECURSIVE Centroids(_, _)
Centroids(blobs, p) ==
    IF blobs = <<>> THEN <<>>
    ELSE (IF PassesSizeFilter(Head(blobs), p)
          THEN <<Centroid(Head(blobs))>> ELSE <<>>)
         \o Centroids(Tail(blobs), p)

\* (mutant of TooNoisy: the count is not tested)
NeverTooNoisy(xy, p) == xy

\* (mutant of TooNoisy: the list is cut to max_blob instead of dropped)
Truncated(xy, p) ==
    IF Len(xy) > p.max_blob THEN SubSeq(xy, 1, p.max_blob) ELSE xy

\* lines 41-44: more than max_blob candidates: the image is too noisy
TooNoisy(xy, p) == IF Len(xy) > p.max_blob THEN <<>> ELSE xy

\* the call, with what it computed on the way
process_image(img, p) ==
    LET binary_image == Binarize(img, p.threshold)
        blobs == Label[{q \in DOMAIN binary_image : binary_image[q] # 0}]
        xy == Centroids(blobs, p)
    IN  [binary_image |-> binary_image, blobs |-> blobs,
         xy_coordinates |-> xy, returned |-> TooNoisy(xy, p)]

(***************************************************************************)
(* SpecDetect: process_image as a function of its arguments.  DetectInit   *)
(* draws a MaxRows x MaxCols intensity map and the parameters; Detect      *)
(* applies the function.  A drawn map is either a background one below the *)
(* threshold with at most MaxLit pixels at the threshold or one above it,  *)
(* or a disk above the threshold on that background.                       *)
(***************************************************************************)
Pixels == PixelsOf(MaxRows, MaxCols)

MapOf(lit) ==
    [rows |-> MaxRows, cols |-> MaxCols,
     px |-> [q \in Pixels |->
                IF q \in DOMAIN lit THEN lit[q] ELSE DefaultThreshold - 1]]

SparseMaps ==
    {MapOf(lit) :
        lit \in UNION {[S -> {DefaultThreshold, DefaultThreshold + 1}] :
                          S \in {T \in SUBSET Pixels : Cardinality(T) <= MaxLit}}}

\* A disk: the pixels within radius r of a centre.  The centre is given
\* doubled (c2 = 2 * centre, so it may lie between pixels) and the radius as
\* r4 = 4 * r * r, which keeps the test in integers.
InDisk(q, c2, r4) ==
    (2 * q[1] - c2[1]) * (2 * q[1] - c2[1])
        + (2 * q[2] - c2[2]) * (2 * q[2] - c2[2]) <= r4

DiskPixels(c2, r4) ==
    {q \in ((0 - 2)..(MaxRows + 1)) \X ((0 - 2)..(MaxCols + 1)) : InDisk(q, c2, r4)}

\* the disks that lie within the map
Disks ==
    {d \in [c2 : (0..(2 * (MaxRows - 1))) \X (0..(2 * (MaxCols - 1))),
            r4 : {0, 1, 2, 4, 5, 8, 10}] :
        /\ DiskPixels(d.c2, d.r4) # {}
        /\ DiskPixels(d.c2, d.r4) \subseteq Pixels}

DiskMap(d) ==
    MapOf([q \in DiskPixels(d.c2, d.r4) |-> DefaultThreshold + 1])

DetectParams ==
    {[MainParam EXCEPT !.min_blob_size = m, !.max_blob = b] :
        m \in 1..MaxMinBlob, b \in 1..MaxMaxBlob}

DetectInit ==
    /\ \/ image \in SparseMaps /\ shape = [kind |-> "sparse"]
       \/ \E d \in Disks :
             image = DiskMap(d) /\ shape = [kind |-> "disk", c2 |-> d.c2, r4 |-> d.r4]
    /\ param \in DetectParams
    /\ det = NotRun
    /\ all_coordinates = <<>>
    /\ dd = NotRun
    /\ dd_again = NotRun
    /\ dd_perm = NotRun
    /\ dd_more = NotRun
    /\ CropIdle
    /\ MainIdle
    /\ ViewerIdle

\* line 134: xy_coordinates = process_image(preprocessed_image, param)
Detect ==
    /\ det = NotRun
    /\ det' = process_image(image, param)
    /\ UNCHANGED <<viewer_vars, all_coordinates, param, dedup_vars, image, shape, crop_vars,
                   main_vars>>

DetectNext == Detect

SpecDetect == DetectInit /\ [][DetectNext]_vars

(***************************************************************************)
(* SpecDedup: postprocess_coordinates as a function of its arguments.  The *)
(* pool and distance_cutoff are drawn by DedupInit; the actions apply the  *)
(* function to the pool, to the pool of its survivors, and to a reordering *)
(* of the pool.  A pool is what main's loop builds (line 137): one entry   *)
(* per frame, filenames distinct, each with a list of (x, y).              *)
(***************************************************************************)
DedupFrames == {"A", "B"}
\* candidate coordinates: distances 0, 1, 2 and sqrt(5) occur, so that every
\* cutoff has pairs below it, at it and above it
Points == {0, 1} \X {0, 2}
Cutoffs == {0, 1, 2}

NumCandidates(all) == Len(Flatten(all))

\* the pools whose frames are fl, in this order, with at most budget candidates
RECURSIVE PoolsOver(_, _)
PoolsOver(fl, budget) ==
    IF fl = <<>> THEN {<<>>}
    ELSE UNION {{<<[filename |-> Head(fl), coordinates |-> c]>> \o rest :
                    rest \in PoolsOver(Tail(fl), budget - Len(c))} :
                c \in SeqsUpTo(Points, budget)}

Pools ==
    UNION {PoolsOver(fl, MaxCandidates) :
              fl \in UNION {ListsOf(S) : S \in SUBSET DedupFrames}}

DedupInit ==
    /\ all_coordinates \in Pools
    /\ param \in {[MainParam EXCEPT !.distance_cutoff = c] : c \in Cutoffs}
    /\ dd = NotRun
    /\ dd_again = NotRun
    /\ dd_perm = NotRun
    /\ dd_more = NotRun
    /\ image = NotRun
    /\ shape = NotRun
    /\ det = NotRun
    /\ CropIdle
    /\ MainIdle
    /\ ViewerIdle

\* line 140: valid_images = postprocess_coordinates(all_coordinates, param)
Deduplicate ==
    /\ dd = NotRun
    /\ dd' \in Calls(all_coordinates, param)
    /\ UNCHANGED <<viewer_vars, all_coordinates, param, dd_again, dd_perm, dd_more, detect_vars,
                   crop_vars, main_vars>>

\* the pool made of the candidates that survived the call
SurvivorPool(all, to_remove) ==
    [k \in 1..Len(all) |->
        [filename |-> all[k].filename,
         coordinates |->
            Pick(all[k].coordinates,
                 {i \in 1..Len(all[k].coordinates) :
                     (NumCandidates(SubSeq(all, 1, k - 1)) + i) \notin to_remove},
                 1)]]

\* postprocess_coordinates applied again, to the survivors of the first call
Rededuplicate ==
    /\ dd # NotRun /\ dd.out.status = "returned"
    /\ dd_again = NotRun /\ dd_perm = NotRun /\ dd_more = NotRun
    /\ dd_again' \in
           Calls(SurvivorPool(all_coordinates, dd.out.to_remove), param)
    /\ UNCHANGED <<viewer_vars, all_coordinates, param, dd, dd_perm, dd_more, detect_vars, crop_vars,
                   main_vars>>

\* the permutations of a list
Bijections(n) == {g \in [1..n -> 1..n] : Range(g) = 1..n}
Perms(s) == {[i \in 1..Len(s) |-> s[f[i]]] : f \in Bijections(Len(s))}

\* the pools that hold the same frames in another order, each with its
\* candidates in another order
RECURSIVE InnerOrders(_)
InnerOrders(all) ==
    IF all = <<>> THEN {<<>>}
    ELSE {<<[filename |-> Head(all).filename, coordinates |-> c]>> \o rest :
             c \in Perms(Head(all).coordinates),
             rest \in InnerOrders(Tail(all))}
Reorderings(all) == UNION {InnerOrders(q) : q \in Perms(all)}

\* postprocess_coordinates applied to a reordering of the pool; of the call
\* are kept whether it returned, the candidates that survived and the
\* filenames returned
Reorder ==
    /\ dd # NotRun
    /\ dd_again = NotRun /\ dd_perm = NotRun /\ dd_more = NotRun
    /\ \E q \in Reorderings(all_coordinates) :
          LET r == postprocess_coordinates(q, param)
          IN  dd_perm' = [reordered |-> q # all_coordinates,
                          status |-> r.status,
                          survivors |-> Range(r.valid_coordinates),
                          filenames |-> r.filenames]
    /\ UNCHANGED <<viewer_vars, all_coordinates, param, dd, dd_again, dd_more, detect_vars,
                   crop_vars, main_vars>>

\* the pools that hold the pool all: the same frames first, each with its
\* candidates first, and more candidates or more frames after them, within
\* MaxCandidates
RECURSIVE GrownOver(_, _)
GrownOver(all, budget) ==
    IF all = <<>> THEN {<<>>}
    ELSE UNION {{<<[filename |-> Head(all).filename,
                    coordinates |-> Head(all).coordinates \o c]>> \o rest :
                    rest \in GrownOver(Tail(all), budget - Len(c))} :
                c \in SeqsUpTo(Points, budget)}

MoreFrames(all, budget) ==
    UNION {PoolsOver(fl, budget) :
              fl \in UNION {ListsOf(S) :
                  S \in SUBSET (DedupFrames
                                  \ {all[k].filename : k \in 1..Len(all)})}}

Extensions(all) ==
    UNION {{g \o n : n \in MoreFrames(all, MaxCandidates - NumCandidates(g))} :
              g \in GrownOver(all, MaxCandidates - NumCandidates(all))}
        \ {all}

\* the index in the flattened list of candidate i of entry k
IndexOf(all, k, i) == NumCandidates(SubSeq(all, 1, k - 1)) + i

\* the candidates <<k, i>> of the pool all that the call on the pool q, which
\* holds all, did not mark
SurvivorsOf(all, q, to_remove) ==
    {id \in UNION {{<<k, i>> : i \in 1..Len(all[k].coordinates)} :
                      k \in 1..Len(all)} :
        IndexOf(q, id[1], id[2]) \notin to_remove}

\* postprocess_coordinates applied to a pool that holds the pool; of the call
\* are kept whether it returned, which candidates of the pool survived, the
\* filenames returned and the frames of the pool that got more candidates
Extend ==
    /\ dd # NotRun
    /\ dd_again = NotRun /\ dd_perm = NotRun /\ dd_more = NotRun
    /\ \E q \in Extensions(all_coordinates) :
          LET r == postprocess_coordinates(q, param)
          IN  dd_more' =
                  [status |-> r.status,
                   survivors |-> SurvivorsOf(all_coordinates, q, r.to_remove),
                   filenames |-> r.filenames,
                   gained |->
                       {all_coordinates[k].filename :
                           k \in {n \in 1..Len(all_coordinates) :
                                     q[n] # all_coordinates[n]}}]
    /\ UNCHANGED <<viewer_vars, all_coordinates, param, dd, dd_again, dd_perm, detect_vars,
                   crop_vars, main_vars>>

DedupNext ==
    \/ Deduplicate
    \/ Rededuplicate
    \/ Reorder
    \/ Extend

SpecDedup == DedupInit /\ [][DedupNext]_vars


(***************************************************************************)
(* preprocess_image (dark2flash.py 11-21).  An image, as cv2.imread gives  *)
(* it, is a record [height, width, smooth]: its size, and the pixels of    *)
(* its cropped green channel that are bright once blurred.                 *)
(* cv2.GaussianBlur is library code; the model keeps of it that its output *)
(* has the size of its input and that it raises cv2.error on an empty one. *)
(***************************************************************************)
\* the length of a[lo:-hi] for an axis of n elements (lo, hi >= 0): -hi
\* counts from the end, and -0 is 0, the start of the axis
SliceLen(n, lo, hi) ==
    LET start == IF lo > n THEN n ELSE lo
        stop == IF hi = 0 THEN 0 ELSE IF n < hi THEN 0 ELSE n - hi
    IN  IF stop > start THEN stop - start ELSE 0

\* line 16: the size of cropped_image
CropRows(img, p) == SliceLen(img.height, p.crop_top, p.crop_bottom)
CropCols(img, p) == SliceLen(img.width, p.crop_left, p.crop_right)

\* (mutant of preprocess_image: an empty crop is returned as an empty map)
PreprocessReturnsEmpty(img, p) ==
    [status |-> "returned",
     map |-> [rows |-> CropRows(img, p), cols |-> CropCols(img, p),
              px |-> [q \in PixelsOf(CropRows(img, p), CropCols(img, p)) |->
                         IF q \in img.smooth THEN 255 ELSE 0]]]

\* lines 13-21
preprocess_image(img, p) ==
    IF CropRows(img, p) = 0 \/ CropCols(img, p) = 0
    THEN [status |-> "cv2.error"]
    ELSE [status |-> "returned",
          map |-> [rows |-> CropRows(img, p), cols |-> CropCols(img, p),
                   px |-> [q \in PixelsOf(CropRows(img, p), CropCols(img, p)) |->
                              IF q \in img.smooth THEN 255 ELSE 0]]]

(***************************************************************************)
(* SpecCrop: preprocess_image as a function of its arguments.  CropInit    *)
(* draws the size of the frame and the four crop margins; Crop applies the *)
(* function.                                                               *)
(***************************************************************************)
CropFrames ==
    [height : 1..MaxHeight, width : 1..MaxWidth, smooth : {{}, {<<0, 0>>}}]

Margins == 0..MaxMargin

CropParams ==
    {[MainParam EXCEPT !.crop_top = m[1], !.crop_bottom = m[2],
                       !.crop_left = m[3], !.crop_right = m[4]] :
        m \in Margins \X Margins \X Margins \X Margins}

CropInit ==
    /\ frame \in CropFrames
    /\ param \in CropParams
    /\ blurred_image = NotRun
    /\ all_coordinates = <<>>
    /\ dd = NotRun /\ dd_again = NotRun /\ dd_perm = NotRun
    /\ dd_more = NotRun
    /\ image = NotRun /\ shape = NotRun /\ det = NotRun
    /\ MainIdle
    /\ ViewerIdle

\* line 131: preprocessed_image = preprocess_image(image, param)
Crop ==
    /\ blurred_image = NotRun
    /\ blurred_image' = preprocess_image(frame, param)
    /\ UNCHANGED <<viewer_vars, all_coordinates, param, dedup_vars, detect_vars, frame,
                   main_vars>>

CropNext == Crop

SpecCrop == CropInit /\ [][CropNext]_vars

(***************************************************************************)
(* The frames of Spec.  A bright block is 2 rows by w columns of the       *)
(* cropped frame; one of 4 columns has min_blob_size pixels and its        *)
(* centroid truncates to (first column + 1, 0).                            *)
(***************************************************************************)
Block(c, w) == {0, 1} \X (c..(c + w - 1))

Images ==
    [dark |-> [height |-> FrameHeight, width |-> FrameWidth, smooth |-> {}],
     left |-> [height |-> FrameHeight, width |-> FrameWidth,
               smooth |-> Block(0, 4)],
     right |-> [height |-> FrameHeight, width |-> FrameWidth,
                smooth |-> Block(17, 4)],
     both |-> [height |-> FrameHeight, width |-> FrameWidth,
               smooth |-> Block(0, 4) \cup Block(20, 4)],
     small |-> [height |-> FrameHeight, width |-> FrameWidth,
                smooth |-> Block(0, 3)],
     noisy |-> [height |-> FrameHeight, width |-> FrameWidth,
                smooth |-> UNION {Block(5 * k, 4) : k \in 0..5}],
     undersized |-> [height |-> MainParam.crop_top + MainParam.crop_bottom,
                     width |-> FrameWidth, smooth |-> {}]]

\* lines 131-134, for each image: the outcome of preprocess_image, then of
\* process_image on its result
PerFrame(p) ==
    [t \in DOMAIN Images |->
        LET pre == preprocess_image(Images[t], p)
        IN  IF pre.status = "returned"
            THEN [status |-> "returned",
                  xy_coordinates |-> process_image(pre.map, p).returned]
            ELSE pre]

\* args.threshold (line 80) is an int; the runs of Spec use the default
Thresholds == {DefaultThreshold}

ParamOf(threshold) == [MainParam EXCEPT !.threshold = threshold]

\* PerFrame for each threshold, computed once
PerFrameAt == [th \in Thresholds |-> PerFrame(ParamOf(th))]

\* lines 131-134 for the image t under the parameters p of a run
FrameOutcome(t, p) == PerFrameAt[p.threshold][t]

(***************************************************************************)
(* main (dark2flash.py 76-155).                                            *)
(***************************************************************************)
Filenames == {"A", "B", "C"}

\* an entry of the input folder: a regular image file (its target is its
\* own content), or a symlink whose target is missing or is one of Images
EntryKinds ==
    [kind : {"file"}, target : {"dark", "left"}]
        \cup [kind : {"symlink"}, target : {"missing"} \cup DOMAIN Images]

\* '_flash' before the run: absent, or there with the entries an earlier run
\* left in it ("old": an entry that resolves, os.path.exists is True)
OldNames == {"A"}

FlashBefore ==
    {[exists |-> FALSE, files |-> <<>>]}
        \cup {[exists |-> TRUE, files |-> [g \in S |-> "old"]] : S \in SUBSET OldNames}

\* lines 121-122: the image files on disk that the symlinks of the folder
\* point to (os.readlink gives the path, cv2.imread reads that file)
RealTargets(es) ==
    {es[f].target : f \in {g \in DOMAIN es : /\ es[g].kind = "symlink"
                                              /\ es[g].target # "missing"}}

\* lines 78-98: the arguments, the parameters; nothing is read yet
Init ==
    /\ pc = "start"
    /\ args \in [action : {"move", "copy"}, symlinks : BOOLEAN,
                  threshold : Thresholds]
    /\ param = ParamOf(args.threshold)
    /\ input_is_dir \in BOOLEAN
    /\ entries \in IF input_is_dir
                    THEN UNION {[S -> EntryKinds] : S \in SUBSET Filenames}
                    ELSE {<<>>}
    /\ flash \in IF input_is_dir THEN FlashBefore
                                   ELSE {[exists |-> FALSE, files |-> <<>>]}
    /\ all_coordinates = <<>>
    /\ todo = {}
    /\ passed = {}
    /\ valid_images = <<>>
    /\ next_valid = 1
    /\ post_calls = 0
    /\ real_images = RealTargets(entries)
    /\ dd = NotRun /\ dd_again = NotRun /\ dd_perm = NotRun
    /\ dd_more = NotRun
    /\ image = NotRun /\ shape = NotRun /\ det = NotRun
    /\ CropIdle
    /\ ViewerIdle

\* (mutant of Start: '_flash' is emptied when the run starts)
StartClearsFlash ==
    /\ pc = "start"
    /\ IF input_is_dir
       THEN /\ flash' = [exists |-> TRUE, files |-> <<>>]
            /\ todo' = DOMAIN entries \cup {"_flash"}
            /\ pc' = "loop"
       ELSE /\ pc' = "done"
            /\ UNCHANGED <<flash, todo>>
    /\ UNCHANGED <<viewer_vars, all_coordinates, param, dedup_vars, detect_vars, crop_vars,
                   args, real_images, input_is_dir, entries, passed, valid_images,
                   next_valid, post_calls>>

\* lines 100-109: without the input folder main returns; otherwise it
\* creates '_flash' in it unless it is there (exist_ok) and lists the folder
\* (the listing holds '_flash' too)
Start ==
    /\ pc = "start"
    /\ IF input_is_dir
       THEN /\ flash' = [flash EXCEPT !.exists = TRUE]
            /\ todo' = DOMAIN entries \cup {"_flash"}
            /\ pc' = "loop"
       ELSE /\ pc' = "done"
            /\ UNCHANGED <<flash, todo>>
    /\ UNCHANGED <<viewer_vars, all_coordinates, param, dedup_vars, detect_vars, crop_vars,
                   args, real_images, input_is_dir, entries, passed, valid_images,
                   next_valid, post_calls>>

\* (mutant of IsLink: every entry of the folder is taken for a frame)
IsEntry(f) == f \in DOMAIN entries

\* line 116: os.path.islink(filepath)
IsLink(f) == f \in DOMAIN entries /\ entries[f].kind = "symlink"

\* lines 121-122: cv2.imread(os.readlink(filepath)) is None for a target
\* that is no readable image
Unreadable(f) == entries[f].target = "missing"

\* (mutant of ProcessFrame: a symlink that cannot be read is not passed
\* over, it gets an entry without candidates)
ProcessFrameKeepsUnreadable(f) ==
    /\ pc = "loop"
    /\ f \in todo
    /\ todo' = todo \ {f}
    /\ passed' = passed \cup {f}
    /\ IF ~IsLink(f)
       THEN UNCHANGED <<pc, all_coordinates>>
       ELSE IF Unreadable(f)
       THEN /\ all_coordinates' = all_coordinates \o
                   <<[filename |-> f, coordinates |-> <<>>]>>
            /\ UNCHANGED pc
       ELSE IF FrameOutcome(entries[f].target, param).status # "returned"
       THEN pc' = "cv2.error" /\ UNCHANGED all_coordinates
       ELSE /\ all_coordinates' = all_coordinates \o
                   <<[filename |-> f,
                      coordinates |->
                          FrameOutcome(entries[f].target, param).xy_coordinates]>>
            /\ UNCHANGED pc
    /\ UNCHANGED <<viewer_vars, param, dedup_vars, detect_vars, crop_vars, args, real_images,
                   input_is_dir, entries, flash, valid_images, next_valid,
                   post_calls>>

\* lines 112-137: one iteration of the loop, on an entry of the listing (os
\* .listdir gives them in an arbitrary order).  An entry that is no symlink
\* or cannot be read is passed over; an error of preprocess_image is not
\* caught and ends the run; otherwise the frame's entry is appended.
ProcessFrame(f) ==
    /\ pc = "loop"
    /\ f \in todo
    /\ todo' = todo \ {f}
    /\ passed' = passed \cup {f}
    /\ IF ~IsLink(f) \/ Unreadable(f)
       THEN UNCHANGED <<pc, all_coordinates>>
       ELSE IF FrameOutcome(entries[f].target, param).status # "returned"
       THEN pc' = "cv2.error" /\ UNCHANGED all_coordinates
       ELSE /\ all_coordinates' = all_coordinates \o
                   <<[filename |-> f,
                      coordinates |->
                          FrameOutcome(entries[f].target, param).xy_coordinates]>>
            /\ UNCHANGED pc
    /\ UNCHANGED <<viewer_vars, param, dedup_vars, detect_vars, crop_vars, args, real_images,
                   input_is_dir, entries, flash, valid_images, next_valid,
                   post_calls>>

\* (mutant of LoopFinished: the call does not wait for the last frame)
LoopStarted == TRUE

\* line 112: the for loop has gone through the whole listing
LoopFinished == todo = {}

\* (mutant of Postprocess: the call drops from the pool the entries that
\* hold no candidate)
PostprocessPrunesPool ==
    /\ pc = "loop"
    /\ LoopFinished
    /\ post_calls' = post_calls + 1
    /\ \E c \in Calls(all_coordinates, param) :
          /\ dd' = c
          /\ valid_images' = c.valid_images
          /\ pc' = IF c.out.status = "returned" THEN "materialize"
                                                  ELSE c.out.status
    /\ all_coordinates' =
           Pick(all_coordinates,
                {k \in 1..Len(all_coordinates) :
                    all_coordinates[k].coordinates # <<>>}, 1)
    /\ UNCHANGED <<viewer_vars, param, dd_again, dd_perm, dd_more, detect_vars, crop_vars, args, real_images,
                   input_is_dir, entries, flash, todo, passed, next_valid>>

\* line 140: valid_images = postprocess_coordinates(all_coordinates, param);
\* a ValueError of cdist is not caught and ends the run
Postprocess ==
    /\ pc = "loop"
    /\ LoopFinished
    /\ post_calls' = post_calls + 1
    /\ \E c \in Calls(all_coordinates, param) :
          /\ dd' = c
          /\ valid_images' = c.valid_images
          /\ pc' = IF c.out.status = "returned" THEN "materialize"
                                                  ELSE c.out.status
    /\ UNCHANGED <<viewer_vars, all_coordinates, param, dd_again, dd_perm, dd_more, detect_vars,
                   crop_vars, args, real_images, input_is_dir, entries, flash, todo, passed,
                   next_valid>>

\* (mutant of Materialize: the input symlink is removed whatever the action)
MaterializeAlwaysUnlinks ==
    /\ pc = "materialize"
    /\ next_valid <= Len(valid_images)
    /\ LET f == valid_images[next_valid]
       IN  /\ flash' =
                  [flash EXCEPT !.files =
                      IF args.symlinks
                      THEN IF f \in DOMAIN @ THEN @
                           ELSE [g \in DOMAIN @ \cup {f} |->
                                    IF g = f THEN "symlink" ELSE @[g]]
                      ELSE [g \in DOMAIN @ \cup {f} |->
                               IF g = f THEN "copy" ELSE @[g]]]
           /\ entries' = [g \in DOMAIN entries \ {f} |-> entries[g]]
    /\ next_valid' = next_valid + 1
    /\ UNCHANGED <<viewer_vars, all_coordinates, param, dedup_vars, detect_vars, crop_vars,
                   pc, args, real_images, input_is_dir, todo, passed,
                   valid_images, post_calls>>

\* lines 143-155: one iteration of the loop over valid_images: the copy or
\* the link in '_flash', then os.unlink of the input symlink (line 155, the
\* link itself, never real_path) when the action is move
Materialize ==
    /\ pc = "materialize"
    /\ next_valid <= Len(valid_images)
    /\ LET f == valid_images[next_valid]
       IN  /\ flash' =
                  [flash EXCEPT !.files =
                      IF args.symlinks
                      THEN IF f \in DOMAIN @ THEN @
                           ELSE [g \in DOMAIN @ \cup {f} |->
                                    IF g = f THEN "symlink" ELSE @[g]]
                      ELSE [g \in DOMAIN @ \cup {f} |->
                               IF g = f THEN "copy" ELSE @[g]]]
           /\ entries' =
                  IF args.action = "move"
                  THEN [g \in DOMAIN entries \ {f} |-> entries[g]]
                  ELSE entries
    /\ next_valid' = next_valid + 1
    /\ UNCHANGED <<viewer_vars, all_coordinates, param, dedup_vars, detect_vars, crop_vars,
                   pc, args, real_images, input_is_dir, todo, passed, valid_images,
                   post_calls>>

\* (mutant of Finish: the loop over valid_images stops one iteration early)
FinishBeforeLast ==
    /\ pc = "materialize"
    /\ next_valid >= Len(valid_images)
    /\ pc' = "done"
    /\ UNCHANGED <<viewer_vars, all_coordinates, param, dedup_vars, detect_vars, crop_vars,
                   args, real_images, input_is_dir, entries, flash, todo, passed,
                   valid_images, next_valid, post_calls>>

\* line 155: the loop over valid_images is over, main returns
Finish ==
    /\ pc = "materialize"
    /\ next_valid > Len(valid_images)
    /\ pc' = "done"
    /\ UNCHANGED <<viewer_vars, all_coordinates, param, dedup_vars, detect_vars, crop_vars,
                   args, real_images, input_is_dir, entries, flash, todo, passed,
                   valid_images, next_valid, post_calls>>

Next ==
    \/ Start
    \/ \E f \in todo : ProcessFrame(f)
    \/ Postprocess
    \/ Materialize
    \/ Finish

Spec == Init /\ [][Next]_vars

(***************************************************************************)
(* The viewer (verif-eye.py 9-114).  An image file is known by its name;   *)
(* names are 1..MaxImages and sorted() is their ascending order.           *)
(***************************************************************************)
ImageNames == 1..MaxImages

\* line 27: sorted(set(...)), the names of S in ascending order
Sorted(S) ==
    CHOOSE s \in [1..Cardinality(S) -> S] :
        \A i, j \in 1..Cardinality(S) : i < j => s[i] < s[j]

\* lines 21-28: the list of (name, status): every name of either listing
\* once, 'rejected' if the name is in the listing of '_rejected'
TrackedImages(main_images, rejected_images) ==
    LET all_names == Sorted(main_images \cup rejected_images)
    IN  [k \in 1..Len(all_names) |->
            <<all_names[k],
              IF all_names[k] \in rejected_images THEN "rejected" ELSE "main">>]

\* before main(folder_path): the flag, and any image files in the folder and
\* in '_rejected' (a name may be in both)
ViewerInit ==
    /\ viewer = "start"
    /\ REJECTED_BY_DEFAULT \in BOOLEAN
    /\ folder \in SUBSET ImageNames
    /\ rejected_folder \in SUBSET ImageNames
    /\ images = <<>>
    /\ idx = 0
    /\ use_jet = FALSE
    /\ event = "none"
    /\ all_coordinates = <<>>
    /\ param = NotRun
    /\ dd = NotRun /\ dd_again = NotRun /\ dd_perm = NotRun
    /\ dd_more = NotRun
    /\ image = NotRun /\ shape = NotRun /\ det = NotRun
    /\ CropIdle
    /\ MainIdle

\* lines 11-35: '_rejected' is made, with REJECTED_BY_DEFAULT every image of
\* the folder is moved into it (shutil.move replaces a file of that name),
\* the list is built; without images main returns, otherwise the figure opens
\* on the first image
ViewerStart ==
    /\ viewer = "start"
    /\ LET main_images == IF REJECTED_BY_DEFAULT THEN {} ELSE folder
           rejected_images ==
               IF REJECTED_BY_DEFAULT THEN rejected_folder \cup folder
                                      ELSE rejected_folder
       IN  /\ folder' = main_images
           /\ rejected_folder' = rejected_images
           /\ images' = TrackedImages(main_images, rejected_images)
           /\ viewer' = IF main_images \cup rejected_images = {}
                        THEN "returned" ELSE "open"
    /\ idx' = 0
    /\ use_jet' = FALSE
    /\ UNCHANGED <<REJECTED_BY_DEFAULT, event>>
    /\ UNCHANGED <<all_coordinates, param, dedup_vars, detect_vars, crop_vars,
                   main_vars>>

\* lines 65-67: the right arrow
KeyRight ==
    /\ viewer = "open"
    /\ event' = "right"
    /\ idx' = (idx + 1) % Len(images)
    /\ UNCHANGED <<viewer, REJECTED_BY_DEFAULT, folder, rejected_folder,
                   images, use_jet>>
    /\ UNCHANGED <<all_coordinates, param, dedup_vars, detect_vars, crop_vars,
                   main_vars>>

\* lines 68-70: the left arrow
KeyLeft ==
    /\ viewer = "open"
    /\ event' = "left"
    /\ idx' = (idx - 1) % Len(images)
    /\ UNCHANGED <<viewer, REJECTED_BY_DEFAULT, folder, rejected_folder,
                   images, use_jet>>
    /\ UNCHANGED <<all_coordinates, param, dedup_vars, detect_vars, crop_vars,
                   main_vars>>

\* (mutant of on_accept: the file is moved, the list keeps the old status)
on_accept_keeps_status ==
    /\ viewer = "open"
    /\ event' = "accept"
    /\ LET name == images[idx + 1][1]
           status == images[idx + 1][2]
       IN  IF status = "rejected"
           THEN /\ rejected_folder' = rejected_folder \ {name}
                /\ folder' = folder \cup {name}
                /\ UNCHANGED images
           ELSE UNCHANGED <<folder, rejected_folder, images>>
    /\ UNCHANGED <<viewer, REJECTED_BY_DEFAULT, idx, use_jet>>
    /\ UNCHANGED <<all_coordinates, param, dedup_vars, detect_vars, crop_vars,
                   main_vars>>

\* lines 93-99 (the up arrow, line 72, and the Accept button, line 109): a
\* rejected image is moved from '_rejected' to the folder, where the move
\* replaces a file of that name, and its status becomes 'main'
on_accept ==
    /\ viewer = "open"
    /\ event' = "accept"
    /\ LET name == images[idx + 1][1]
           status == images[idx + 1][2]
       IN  IF status = "rejected"
           THEN /\ rejected_folder' = rejected_folder \ {name}
                /\ folder' = folder \cup {name}
                /\ images' = [images EXCEPT ![idx + 1] = <<name, "main">>]
           ELSE UNCHANGED <<folder, rejected_folder, images>>
    /\ UNCHANGED <<viewer, REJECTED_BY_DEFAULT, idx, use_jet>>
    /\ UNCHANGED <<all_coordinates, param, dedup_vars, detect_vars, crop_vars,
                   main_vars>>

\* lines 101-107 (the down arrow, line 74, and the Reject button, line 110):
\* an image of the folder is moved to '_rejected' and its status becomes
\* 'rejected'
on_reject ==
    /\ viewer = "open"
    /\ event' = "reject"
    /\ LET name == images[idx + 1][1]
           status == images[idx + 1][2]
       IN  IF status = "main"
           THEN /\ folder' = folder \ {name}
                /\ rejected_folder' = rejected_folder \cup {name}
                /\ images' = [images EXCEPT ![idx + 1] = <<name, "rejected">>]
           ELSE UNCHANGED <<folder, rejected_folder, images>>
    /\ UNCHANGED <<viewer, REJECTED_BY_DEFAULT, idx, use_jet>>
    /\ UNCHANGED <<all_coordinates, param, dedup_vars, detect_vars, crop_vars,
                   main_vars>>

\* lines 75-77: the shift key
KeyShift ==
    /\ viewer = "open"
    /\ event' = "shift"
    /\ use_jet' = ~use_jet
    /\ UNCHANGED <<viewer, REJECTED_BY_DEFAULT, folder, rejected_folder,
                   images, idx>>
    /\ UNCHANGED <<all_coordinates, param, dedup_vars, detect_vars, crop_vars,
                   main_vars>>

\* lines 78-79: the escape key closes the figure
KeyEscape ==
    /\ viewer = "open"
    /\ event' = "escape"
    /\ viewer' = "closed"
    /\ UNCHANGED <<REJECTED_BY_DEFAULT, folder, rejected_folder, images, idx,
                   use_jet>>
    /\ UNCHANGED <<all_coordinates, param, dedup_vars, detect_vars, crop_vars,
                   main_vars>>

ViewerNext ==
    \/ ViewerStart
    \/ KeyRight
    \/ KeyLeft
    \/ on_accept
    \/ on_reject
    \/ KeyShift
    \/ KeyEscape

SpecViewer == ViewerInit /\ [][ViewerNext]_vars

(***************************************************************************)
(* Claims about postprocess_coordinates, checked under SpecDedup.          *)
(***************************************************************************)
Flat == Flatten(all_coordinates)

\* candidate i of the pool has another candidate (another index, whatever
\* its frame) at Euclidean distance strictly below distance_cutoff
HasCloseOther(i) ==
    \E j \in (1..Len(Flat)) \ {i} :
        Dist2(Flat[i][2], Flat[j][2]) <
            param.distance_cutoff * param.distance_cutoff

\* C1: postprocess_coordinates removes a candidate if and only if another
\* candidate of the pool, of any frame, lies at distance strictly below
\* distance_cutoff: the marked indices are exactly those candidates, and
\* valid_coordinates is the pool without them.  So both members of a close
\* pair go, a pair at exactly distance_cutoff stays, and the zero distance of
\* a candidate to itself removes nothing.
C1_RemovedIffCloseToAnother ==
    dd # NotRun =>
        /\ \A i \in 1..Len(Flat) : (i \in dd.out.to_remove) <=> HasCloseOther(i)
        /\ dd.out.valid_coordinates =
               Pick(Flat, {i \in 1..Len(Flat) : ~HasCloseOther(i)}, 1)

\* C1 witness: a call that removed two candidates of different frames closer
\* than the cutoff and kept a candidate lying at exactly the cutoff from
\* another one.
C1_Witness ==
    /\ dd # NotRun /\ dd.out.status = "returned"
    /\ param.distance_cutoff > 0
    /\ \E i, j \in dd.out.to_remove :
          Flat[i][1] # Flat[j][1] /\ HasCloseOther(i) /\ HasCloseOther(j)
    /\ \E k \in (1..Len(Flat)) \ dd.out.to_remove :
          \E l \in (1..Len(Flat)) \ {k} :
              Dist2(Flat[k][2], Flat[l][2]) =
                  param.distance_cutoff * param.distance_cutoff

\* the frames of the pool that own a candidate the call did not mark
FramesWithSurvivor ==
    {f \in Range([k \in 1..Len(all_coordinates) |-> all_coordinates[k].filename]) :
        \E i \in (1..Len(Flat)) \ dd.out.to_remove : Flat[i][1] = f}

\* C2: the list postprocess_coordinates returns holds exactly the frames that
\* own at least one candidate that was not removed, each once.
C2_VerdictSetIsFramesWithSurvivor ==
    (dd # NotRun /\ dd.out.status = "returned") =>
        /\ Range(dd.valid_images) = FramesWithSurvivor
        /\ Len(dd.valid_images) = Cardinality(FramesWithSurvivor)

\* C2 witness: a returned list that holds a frame with a removed and a kept
\* candidate and leaves out a frame all of whose candidates were removed.
C2_Witness ==
    /\ dd # NotRun /\ dd.out.status = "returned"
    /\ \E i \in dd.out.to_remove : Flat[i][1] \in Range(dd.valid_images)
    /\ \E i \in dd.out.to_remove : Flat[i][1] \notin Range(dd.valid_images)

\* C4 (as claimed): a second call, on the pool of the survivors of the first,
\* returns, removes nothing and returns the frames the first call returned.
C4_Idempotent ==
    dd_again # NotRun =>
        /\ dd_again.out.status = "returned"
        /\ dd_again.out.to_remove = {}
        /\ Range(dd_again.valid_images) = Range(dd.valid_images)

\* C5: a call on any reordering of the pool (frames in another order, the
\* candidates of each frame in another order) ends as the call on the pool
\* does, with the same surviving candidates and the same frames returned.
C5_OrderIndependent ==
    dd_perm # NotRun =>
        /\ dd_perm.status = dd.out.status
        /\ dd_perm.survivors = Range(dd.out.valid_coordinates)
        /\ dd_perm.filenames = dd.out.filenames

\* C5 witness: a reordered pool, with candidates removed and candidates kept.
C5_Witness ==
    /\ dd_perm # NotRun /\ dd_perm.reordered
    /\ dd.out.to_remove # {}
    /\ dd_perm.survivors # {}
    /\ Len(all_coordinates) = 2

\* candidates i and j of the pool are two candidates of one frame, closer to
\* each other than distance_cutoff
CloseInOneFrame(i, j) ==
    /\ i # j
    /\ Flat[i][1] = Flat[j][1]
    /\ Dist2(Flat[i][2], Flat[j][2]) <
           param.distance_cutoff * param.distance_cutoff

\* C22: two candidates of the same frame closer than distance_cutoff to each
\* other are both removed, and a frame each of whose candidates has such a
\* partner in the frame is not in the returned list, wherever the candidates
\* of the other frames lie.
C22_SameFramePairsAreRemoved ==
    (dd # NotRun /\ dd.out.status = "returned") =>
        /\ \A i, j \in 1..Len(Flat) :
              CloseInOneFrame(i, j) => {i, j} \subseteq dd.out.to_remove
        /\ \A k \in 1..Len(all_coordinates) :
              (\A i \in 1..Len(Flat) :
                  Flat[i][1] = all_coordinates[k].filename =>
                      \E j \in 1..Len(Flat) : CloseInOneFrame(i, j)) =>
                  all_coordinates[k].filename \notin Range(dd.valid_images)

\* C22 witness: a frame with exactly two candidates, at different pixels
\* closer than the cutoff, and no candidate of another frame within the
\* cutoff of either; the frame is not returned, another frame is.
C22_Witness ==
    /\ dd # NotRun /\ dd.out.status = "returned"
    /\ \E k \in 1..Len(all_coordinates) :
          LET f == all_coordinates[k].filename
              c == all_coordinates[k].coordinates
          IN  /\ Len(c) = 2 /\ c[1] # c[2]
              /\ Dist2(c[1], c[2]) <
                     param.distance_cutoff * param.distance_cutoff
              /\ \A i \in 1..Len(Flat) :
                    Flat[i][1] # f =>
                        /\ Dist2(Flat[i][2], c[1]) >=
                               param.distance_cutoff * param.distance_cutoff
                        /\ Dist2(Flat[i][2], c[2]) >=
                               param.distance_cutoff * param.distance_cutoff
              /\ f \notin Range(dd.valid_images)
    /\ dd.valid_images # <<>>

\* the candidates <<k, i>> of the pool that the call on the pool did not mark
Survivors == SurvivorsOf(all_coordinates, all_coordinates, dd.out.to_remove)

\* C25: for a pool Q that holds the pool P (P's frames and candidates, and
\* more), the candidates of P that survive the call on Q are among those
\* that survive the call on P, and a frame of P that the call on P does not
\* return is not returned by the call on Q unless it got more candidates.
C25_AntiMonotone ==
    dd_more # NotRun =>
        /\ dd_more.survivors \subseteq Survivors
        /\ \A k \in 1..Len(all_coordinates) :
              LET f == all_coordinates[k].filename
              IN  (f \notin dd.out.filenames /\ f \in dd_more.filenames) =>
                      f \in dd_more.gained

\* C25 witness: the larger pool removed a candidate that survived in the
\* pool, and a frame the call on the pool returned is not returned for the
\* larger pool.
C25_Witness ==
    /\ dd_more # NotRun /\ dd_more.status = "returned"
    /\ dd.out.status = "returned"
    /\ dd_more.survivors # Survivors
    /\ dd.out.filenames \ dd_more.filenames # {}

\* C27: with distance_cutoff = 0 a call that returns removes nothing, even
\* candidates at the same coordinates, and returns every frame that has at
\* least one candidate.
C27_ZeroCutoffRemovesNothing ==
    (dd # NotRun /\ dd.out.status = "returned" /\ param.distance_cutoff = 0) =>
        /\ dd.out.to_remove = {}
        /\ dd.out.valid_coordinates = Flat
        /\ Range(dd.valid_images) = {Flat[i][1] : i \in 1..Len(Flat)}

\* C27 witness: cutoff 0, two frames with a candidate at the same
\* coordinates, both returned.
C27_Witness ==
    /\ dd # NotRun /\ dd.out.status = "returned"
    /\ param.distance_cutoff = 0
    /\ \E i, j \in 1..Len(Flat) :
          Flat[i][1] # Flat[j][1] /\ Flat[i][2] = Flat[j][2]
    /\ Len(dd.valid_images) = 2

(***************************************************************************)
(* Claims about a run of main, checked under Spec.                         *)
(***************************************************************************)
\* the entries of the pool that hold exactly one candidate
OneCandidate(k) == Len(all_coordinates[k].coordinates) = 1

\* the pool of C3: three frames with one candidate each, those of a and b at
\* the same pixel, that of c farther than distance_cutoff from both
SamePlaceTwiceAndOneFar(a, b, c) ==
    /\ Len(all_coordinates) = 3
    /\ {a, b, c} = 1..3
    /\ \A k \in 1..3 : OneCandidate(k)
    /\ all_coordinates[a].coordinates[1] = all_coordinates[b].coordinates[1]
    /\ Dist2(all_coordinates[c].coordinates[1], all_coordinates[a].coordinates[1])
           > param.distance_cutoff * param.distance_cutoff

\* C3: when the per-frame pass of a run gave a pool of three frames A, B, C
\* with one candidate each, A's and B's at the same pixel and C's farther
\* than distance_cutoff from them, the list handed to the materialization
\* loop is [C]: neither A nor B is in it.
C3_SharedLocationLeavesOnlyTheFarFrame ==
    post_calls = 1 =>
        \A a, b, c \in 1..Len(all_coordinates) :
            SamePlaceTwiceAndOneFar(a, b, c) =>
                /\ dd.out.status = "returned"
                /\ valid_images = <<all_coordinates[c].filename>>

\* C3 witness: a finished run on such a batch, that put the far frame, and
\* only it, into '_flash'.
C3_Witness ==
    /\ pc = "done" /\ post_calls = 1
    /\ \E a, b, c \in 1..Len(all_coordinates) :
          /\ SamePlaceTwiceAndOneFar(a, b, c)
          /\ DOMAIN flash.files = {all_coordinates[c].filename}

\* a frame has been copied or linked into '_flash', or moved out of the
\* input folder
SomeFrameMaterialized ==
    \/ \E f \in DOMAIN flash.files : flash.files[f] # "old"
    \/ (pc # "start" /\ input_is_dir
        /\ ~(todo \cup passed \subseteq DOMAIN entries \cup {"_flash"}))

\* the per-frame pass has finished for every entry os.listdir gave
PerFramePassFinished ==
    /\ todo = {}
    /\ DOMAIN entries \cup {"_flash"} \subseteq passed

\* the run is over: main returned or an exception left it
RunOver == pc \in {"done", "cv2.error", "ValueError"}

\* C6 (as claimed): postprocess_coordinates is invoked exactly once in every
\* run, after the per-frame pass has finished for every enumerated frame, and
\* no frame is materialized before the deduplication has completed.
C6_InvokedExactlyOnceInEveryRun ==
    /\ RunOver => post_calls = 1
    /\ post_calls >= 1 => PerFramePassFinished
    /\ SomeFrameMaterialized => (dd # NotRun /\ dd.out.status = "returned")

\* C6 (amended): postprocess_coordinates is invoked at most once in a run:
\* exactly once in a run whose per-frame loop goes through the whole listing,
\* and not at all in a run that ends before (the input folder is missing, or
\* the per-frame pass raised).  It is invoked only after the per-frame pass has
\* finished for every enumerated frame, and no frame is copied, linked or
\* moved before the deduplication of the whole pool has completed.
C6_InvokedOnceAfterTheWholePass ==
    /\ post_calls <= 1
    /\ (pc \in {"done", "ValueError"} /\ input_is_dir) => post_calls = 1
    /\ (pc = "cv2.error" \/ (pc = "done" /\ ~input_is_dir)) => post_calls = 0
    /\ post_calls >= 1 => PerFramePassFinished
    /\ SomeFrameMaterialized =>
           (post_calls = 1 /\ dd # NotRun /\ dd.out.status = "returned")

\* C6 witness: a finished run over three frames that called
\* postprocess_coordinates once and then moved a frame into '_flash'.
C6_Witness ==
    /\ pc = "done" /\ post_calls = 1
    /\ Cardinality(passed) = 4
    /\ DOMAIN flash.files # {}
    /\ DOMAIN flash.files \cap DOMAIN entries = {}

\* the frames that have an entry in the pool
PoolNames == {all_coordinates[k].filename : k \in 1..Len(all_coordinates)}

\* the list handed to the materialization loop, as a set
VerdictSet == Range(valid_images)

\* the entries of '_flash' the run has made (copied or linked)
Produced == {f \in DOMAIN flash.files : flash.files[f] # "old"}

\* C14 (as claimed): a bad crop configuration ends the run at startup, before
\* any frame is processed: no run processes some frames and then fails on it.
C14_CropFailureBeforeAnyFrame ==
    pc = "cv2.error" => all_coordinates = <<>>

\* C15 (as claimed): a failure on one frame ends that frame only: the run
\* still goes through every other entry and calls postprocess_coordinates.
C15_FrameFailureIsIsolated ==
    /\ pc # "cv2.error"
    /\ (RunOver /\ input_is_dir) => (todo = {} /\ post_calls = 1)

\* f is a symlink of the input folder whose target is no readable image
Dangling(f) == f \in DOMAIN entries /\ IsLink(f) /\ Unreadable(f)

\* C16: a symlink that does not resolve to a readable image is passed over:
\* it gets no entry in the pool, is never in the list postprocess_coordinates
\* returns, is never copied, linked or moved (an entry that left the input
\* folder is one of the list), and the run goes on (the only exception that
\* ends the per-frame loop comes from an undersized frame).
C16_DanglingLinkIsSkipped ==
    /\ \A f \in DOMAIN entries :
          Dangling(f) =>
              /\ f \notin PoolNames
              /\ f \notin VerdictSet
              /\ f \notin Produced
    /\ \A f \in passed \ (DOMAIN entries \cup {"_flash"}) : f \in VerdictSet
    /\ pc = "cv2.error" =>
           \E f \in passed \cap DOMAIN entries :
               IsLink(f) /\ entries[f].target = "undersized"

\* C16 witness: a finished run that passed over a dangling symlink and then
\* materialized another frame.
C16_Witness ==
    /\ pc = "done"
    /\ \E f \in passed : Dangling(f)
    /\ Produced # {}

\* C17 (as claimed): every entry the loop has gone through, a regular image
\* file as well as a symlink, has been through the per-frame pass (it has an
\* entry in the pool).
C17_DirectFilesAreProcessed ==
    \A f \in passed \cap DOMAIN entries :
        (entries[f].kind = "file" /\ pc # "cv2.error") => f \in PoolNames

\* C17 (amended): every entry of the input directory is enumerated, but only
\* the symlinks go through the per-frame pass: a readable symlink the loop
\* has gone through has an entry in the pool, and a regular image file is
\* passed over, so it contributes no candidate, is never in the list
\* postprocess_coordinates returns and is never materialized.
C17_OnlySymlinksAreProcessed ==
    /\ pc = "loop" => todo \cup passed = DOMAIN entries \cup {"_flash"}
    /\ \A f \in DOMAIN entries :
          entries[f].kind = "file" =>
              /\ f \notin PoolNames
              /\ f \notin VerdictSet
              /\ f \notin Produced
    /\ \A f \in passed \cap DOMAIN entries :
          (/\ IsLink(f) /\ ~Unreadable(f)
           /\ FrameOutcome(entries[f].target, param).status = "returned") =>
              f \in PoolNames

\* C17 witness: a finished run whose folder held a regular file with a flash
\* and a symlink that was materialized.
C17_Witness ==
    /\ pc = "done"
    /\ \E f \in passed \cap DOMAIN entries :
          entries[f].kind = "file" /\ entries[f].target = "left"
    /\ Produced # {}

\* C18 (as claimed): when the pool holds no candidate, postprocess_coordinates
\* returns the empty list, the run ends normally and nothing is materialized.
C18_EmptyPoolIsAValidOutcome ==
    (post_calls = 1 /\ Flat = <<>>) =>
        /\ dd.out.status = "returned"
        /\ valid_images = <<>>
        /\ pc # "ValueError"
        /\ Produced = {}

\* C19 (as claimed): when a run has completed, the entries it produced in
\* '_flash' are those of the frames postprocess_coordinates returned: one for
\* every such frame, none for another.
C19_OneProducedEntryPerVerdict ==
    (pc = "done" /\ input_is_dir) => Produced = VerdictSet

\* C19 (amended): the run produces no entry for a frame outside the list
\* postprocess_coordinates returned, and when it has completed '_flash' holds
\* an entry for every frame of the list: the one the run produced or, with
\* --symlinks, an entry that was there before and that the run left as it was.
C19_VerdictsHaveAnEntry ==
    /\ Produced \subseteq VerdictSet
    /\ (pc = "done" /\ input_is_dir) =>
           /\ VerdictSet \subseteq DOMAIN flash.files
           /\ \A f \in VerdictSet \ Produced : args.symlinks

\* C19 witness: a finished run that produced an entry for a frame of the
\* list, left an older entry of another frame of the list in place, and had
\* in its pool a frame that is not in the list.
C19_Witness ==
    /\ pc = "done"
    /\ VerdictSet \cap Produced # {}
    /\ VerdictSet \ Produced # {}
    /\ PoolNames \ VerdictSet # {}

\* a step taken before postprocess_coordinates has returned
BeforeTheVerdict == pc \in {"start", "loop"}

\* a step that leaves the input folder and '_flash' as they are
NoMutation == entries' = entries /\ flash' = flash

\* a step that at most creates the '_flash' folder, empty, at line 107
AtMostCreatesFlash ==
    /\ entries' = entries
    /\ flash'.files = flash.files
    /\ flash.exists => flash'.exists
    /\ flash' # flash => (pc = "start" /\ input_is_dir)

\* C20 (as claimed): until postprocess_coordinates has returned, no step of
\* the run creates, changes or removes a file or a directory.
C20_NoMutationBeforeTheVerdict ==
    [][BeforeTheVerdict => NoMutation]_vars

\* C20 (amended): until postprocess_coordinates has returned, the only change
\* to the file system is the creation of the empty '_flash' folder when it is
\* missing (line 107); no entry of the input folder or of '_flash' is
\* created, changed or removed before the materialization loop.
C20_OnlyTheFlashFolderBeforeTheVerdict ==
    [][BeforeTheVerdict => AtMostCreatesFlash]_vars

\* C20 witness: the call has returned a frame, '_flash' was created by the
\* run's first step, and nothing is materialized yet.
C20_Witness ==
    /\ pc = "materialize" /\ next_valid = 1
    /\ valid_images # <<>>
    /\ flash = [exists |-> TRUE, files |-> <<>>]

\* C21 (as claimed): when a run over an input folder has ended, every entry
\* of the listing has been through the loop, postprocess_coordinates has
\* returned and every frame of its list has been materialized: no frame is
\* left before its terminal state.
C21_EveryFrameReachesItsTerminalState ==
    (RunOver /\ input_is_dir) =>
        /\ todo = {}
        /\ DOMAIN entries \cup {"_flash"} \subseteq passed \cup VerdictSet
        /\ dd # NotRun /\ dd.out.status = "returned"
        /\ next_valid > Len(valid_images)
        /\ VerdictSet \subseteq DOMAIN flash.files

\* a step that changes the pool appends one entry to it, for the frame the
\* loop is at, and changes no entry that was there
AppendsOneEntry ==
    /\ pc = "loop" /\ post_calls = 0
    /\ Len(all_coordinates') = Len(all_coordinates) + 1
    /\ SubSeq(all_coordinates', 1, Len(all_coordinates)) = all_coordinates
    /\ all_coordinates'[Len(all_coordinates')].filename \in todo \ PoolNames
    /\ passed' = passed \cup {all_coordinates'[Len(all_coordinates')].filename}

\* a step of the loop on a readable symlink, after which the loop goes on
ProcessesAFrame ==
    /\ pc = "loop" /\ pc' = "loop"
    /\ \E f \in passed' \ passed : IsLink(f) /\ ~Unreadable(f)

\* what a step may do to the pool and to the parameters
PoolStep ==
    /\ param' = param
    /\ all_coordinates' # all_coordinates => AppendsOneEntry
    /\ ProcessesAFrame => all_coordinates' # all_coordinates
    /\ (post_calls' # post_calls \/ post_calls >= 1) =>
           all_coordinates' = all_coordinates

\* C23: during the per-frame pass every processed frame appends exactly one
\* entry to the pool and no entry already there is changed or removed; the
\* call of postprocess_coordinates and every later step leave the pool
\* unchanged, and no step changes the parameters.
C23_PoolIsAppendOnlyThenFrozen ==
    [][PoolStep]_vars

\* C23 witness: postprocess_coordinates has returned on a pool that three
\* frames appended to.
C23_Witness ==
    /\ pc = "materialize" /\ post_calls = 1
    /\ Len(all_coordinates) = 3
    /\ \E k \in 1..3 : all_coordinates[k].coordinates = <<>>

\* the frames that contributed at least one candidate to the pool
Contributors ==
    {all_coordinates[k].filename :
        k \in {n \in 1..Len(all_coordinates) :
                  all_coordinates[n].coordinates # <<>>}}

\* the image behind f gives no candidate: none above the threshold, none of
\* min_blob_size pixels, or more than max_blob of them
WithoutCandidate(f) == entries[f].target \in {"dark", "small", "noisy"}

\* C24: the frames postprocess_coordinates returned are among the frames that
\* contributed a candidate to the pool, which are among the frames that were
\* read; a frame that is too noisy, a frame without candidate and a frame
\* that was passed over are never returned.
C24_VerdictsAreContributorsAreRead ==
    /\ VerdictSet \subseteq Contributors
    /\ Contributors \subseteq PoolNames
    /\ PoolNames \subseteq passed
    /\ \A f \in PoolNames \cap DOMAIN entries : IsLink(f) /\ ~Unreadable(f)
    /\ \A f \in DOMAIN entries :
          (~IsLink(f) \/ Unreadable(f) \/ WithoutCandidate(f)) =>
              f \notin VerdictSet

\* C24 witness: a finished run whose pool held a frame that was too noisy
\* and a frame without a bright pixel, and that returned a third frame.
C24_Witness ==
    /\ pc = "done"
    /\ \E f, g \in PoolNames \cap DOMAIN entries :
          entries[f].target = "noisy" /\ entries[g].target = "dark"
    /\ VerdictSet # {}

\* a step that removes exactly the entry f of the input folder
Removes(f) ==
    /\ f \in DOMAIN entries
    /\ entries' = [g \in DOMAIN entries \ {f} |-> entries[g]]

\* what a run leaves in the input folder once it has completed: with copy
\* everything, with move everything but the frames of the list
InputFolderAfterTheRun ==
    (pc = "done" /\ input_is_dir) =>
        IF args.action = "move"
        THEN DOMAIN entries \cap VerdictSet = {}
        ELSE VerdictSet \subseteq DOMAIN entries

\* a step changes the input folder only with action move, by removing the
\* symlink of one frame of the list that has its entry in '_flash' by then;
\* no step deletes an image file
InputFolderStep ==
    /\ real_images' = real_images
    /\ entries' # entries =>
           /\ args.action = "move"
           /\ \E f \in VerdictSet :
                 /\ Removes(f)
                 /\ f \in DOMAIN flash'.files
                 /\ f \notin Produced' => args.symlinks

\* the same, the entry in '_flash' being one the run has produced
InputFolderStepAfterProducing ==
    /\ real_images' = real_images
    /\ entries' # entries =>
           /\ args.action = "move"
           /\ \E f \in VerdictSet : Removes(f) /\ f \in Produced'

\* C29 (as claimed): with copy the run changes no entry of the input folder;
\* with move it removes the input symlink of every frame of the list and of
\* no other, each after the run has produced its entry in '_flash'; the image
\* file a symlink points to is never deleted.
C29_RemovedAfterItsEntryWasProduced ==
    []InputFolderAfterTheRun /\ [][InputFolderStepAfterProducing]_vars

\* C29 (amended): the same, the entry in '_flash' being the one the run
\* produced or, with --symlinks, one of that name that was there before.
C29_RemovedAfterItsEntryIsThere ==
    []InputFolderAfterTheRun /\ [][InputFolderStep]_vars

\* C29 witness: a completed run with action move: the symlinks of the frames
\* of the list are gone, one of them with an entry the run produced and one
\* with an older entry, a frame outside the list kept its symlink, and the
\* image files are on disk.
C29_Witness ==
    /\ pc = "done"
    /\ args.action = "move"
    /\ VerdictSet \cap Produced # {}
    /\ VerdictSet \ Produced # {}
    /\ VerdictSet \cap DOMAIN entries = {}
    /\ PoolNames \cap DOMAIN entries # {}
    /\ Cardinality(real_images) >= 2

(***************************************************************************)
(* Claims about process_image, checked under SpecDetect.                   *)
(***************************************************************************)
\* the labels of the components with at least min_blob_size pixels
Passing ==
    {k \in 1..Len(det.blobs) : Cardinality(det.blobs[k]) >= param.min_blob_size}

\* C7: when more than max_blob components pass the size filter, process_image
\* returns no candidate at all, never a list cut to max_blob; otherwise it
\* returns one candidate for every component that passed.
C7_TooNoisyReturnsNothing ==
    det # NotRun =>
        /\ Cardinality(Passing) > param.max_blob => det.returned = <<>>
        /\ Cardinality(Passing) <= param.max_blob =>
               /\ Len(det.returned) = Cardinality(Passing)
               /\ \A k \in Passing : Centroid(det.blobs[k]) \in Range(det.returned)

\* C7 witness: max_blob + 1 components pass the size filter and nothing is
\* returned.
C7_Witness ==
    /\ det # NotRun
    /\ Cardinality(Passing) = param.max_blob + 1
    /\ det.returned = <<>>

\* C8: a component yields a candidate if and only if it has at least
\* min_blob_size pixels (the candidates, before the max_blob test, are those
\* of the passing components, in label order), and the max_blob test counts
\* the passing components only: the result is dropped exactly when more than
\* max_blob of them passed.
C8_SizeFilterBeforeCount ==
    det # NotRun =>
        /\ det.xy_coordinates =
               Pick([k \in 1..Len(det.blobs) |-> Centroid(det.blobs[k])], Passing, 1)
        /\ (det.returned # det.xy_coordinates) <=>
               Cardinality(Passing) > param.max_blob

\* C8 witness: a component of exactly min_blob_size pixels gave a candidate, a
\* smaller one was discarded, and the result is returned although the
\* components, discarded ones included, outnumber max_blob.
C8_Witness ==
    /\ det # NotRun
    /\ \E k \in Passing : Cardinality(det.blobs[k]) = param.min_blob_size
    /\ Passing # 1..Len(det.blobs)
    /\ Len(det.blobs) > param.max_blob
    /\ det.returned # <<>>

\* C9 (as claimed): every pixel at or above the threshold is foreground and
\* every pixel below it is background.
C9_AtOrAboveIsForeground ==
    det # NotRun =>
        \A q \in DOMAIN image.px :
            (det.binary_image[q] # 0) <=> (image.px[q] >= param.threshold)

\* C9 (amended): a pixel is foreground if and only if its intensity is
\* strictly above the threshold; a pixel at the threshold is background.
C9_StrictlyAboveIsForeground ==
    det # NotRun =>
        \A q \in DOMAIN image.px :
            (det.binary_image[q] # 0) <=> (image.px[q] > param.threshold)

\* C9 witness: a binarized map with a pixel at the threshold, one above it
\* and one below it.
C9_Witness ==
    /\ det # NotRun
    /\ \E q \in DOMAIN image.px :
          image.px[q] = param.threshold /\ det.binary_image[q] = 0
    /\ \E q \in DOMAIN image.px :
          image.px[q] > param.threshold /\ det.binary_image[q] = 255
    /\ \E q \in DOMAIN image.px : image.px[q] < param.threshold

Abs(n) == IF n < 0 THEN 0 - n ELSE n

\* C10: for a map that holds one disk above the threshold, of at least
\* min_blob_size pixels, on a background below the threshold, process_image
\* returns exactly one candidate, whose x is within 1 pixel of the centre's
\* column and whose y is within 1 pixel of the centre's row (the centre is
\* kept doubled, so the distances are compared doubled).
C10_DiskGivesItsCentre ==
    (/\ det # NotRun
     /\ shape.kind = "disk"
     /\ Cardinality(DiskPixels(shape.c2, shape.r4)) >= param.min_blob_size) =>
        /\ Len(det.returned) = 1
        /\ Abs(2 * det.returned[1][1] - shape.c2[2]) <= 2
        /\ Abs(2 * det.returned[1][2] - shape.c2[1]) <= 2

\* C10 witness: a disk of several pixels, off the diagonal of the map, for
\* which one candidate was returned.
C10_Witness ==
    /\ det # NotRun
    /\ shape.kind = "disk"
    /\ Cardinality(DiskPixels(shape.c2, shape.r4)) >= 4
    /\ shape.c2[1] # shape.c2[2]
    /\ Len(det.returned) = 1

\* the components that passed the size filter, in label order
PassingBlobs == Pick(det.blobs, Passing, 1)

\* v is an integer nearest to sum / n (either neighbour of a half)
NearestTo(v, sum, n) == 2 * Abs(n * v - sum) <= n

\* v is the integer part of sum / n, for sum >= 0: v <= sum / n < v + 1
IntegerPartOf(v, sum, n) == n * v <= sum /\ sum < n * (v + 1)

\* C11 (as claimed): every candidate is (x, y) with x the mean column and y
\* the mean row of its component, each rounded to the nearest integer.
C11_RoundedToNearest ==
    det # NotRun =>
        /\ Len(det.xy_coordinates) = Len(PassingBlobs)
        /\ \A i \in 1..Len(PassingBlobs) :
              LET blob == PassingBlobs[i]
              IN  /\ NearestTo(det.xy_coordinates[i][1], SumOver[blob][2],
                               Cardinality(blob))
                  /\ NearestTo(det.xy_coordinates[i][2], SumOver[blob][1],
                               Cardinality(blob))

\* C11 (amended): every candidate is (x, y) with x the mean column and y the
\* mean row of its component, each truncated to its integer part (int()):
\* a mean of 0.67 gives 0, not 1.
C11_TruncatedToIntegerPart ==
    det # NotRun =>
        /\ Len(det.xy_coordinates) = Len(PassingBlobs)
        /\ \A i \in 1..Len(PassingBlobs) :
              LET blob == PassingBlobs[i]
              IN  /\ IntegerPartOf(det.xy_coordinates[i][1], SumOver[blob][2],
                                   Cardinality(blob))
                  /\ IntegerPartOf(det.xy_coordinates[i][2], SumOver[blob][1],
                                   Cardinality(blob))

\* C11 witness: a candidate of a component whose mean column lies more than
\* a half above the candidate's x, and whose mean row differs from its mean
\* column.
C11_Witness ==
    /\ det # NotRun
    /\ \E i \in 1..Len(PassingBlobs) :
          LET blob == PassingBlobs[i]
              n == Cardinality(blob)
          IN  /\ 2 * (SumOver[blob][2] - n * det.xy_coordinates[i][1]) > n
              /\ SumOver[blob][1] # SumOver[blob][2]
    /\ det.returned # <<>>

\* C26: the list process_image returns never holds more than max_blob
\* candidates.
C26_AtMostMaxBlobCandidates ==
    det # NotRun => Len(det.returned) <= param.max_blob

\* C26 witness: a map with exactly max_blob passing components, all of them
\* returned: the largest list a call gives.
C26_Witness ==
    /\ det # NotRun
    /\ param.max_blob = MaxMaxBlob
    /\ Cardinality(Passing) = param.max_blob
    /\ Len(det.returned) = param.max_blob

\* the foreground of the binarized map
Foreground == {q \in DOMAIN det.binary_image : det.binary_image[q] # 0}

\* two pixels that share an edge; two pixels that share only a corner
ShareEdge(q, r) == Abs(q[1] - r[1]) + Abs(q[2] - r[2]) = 1
ShareCornerOnly(q, r) == Abs(q[1] - r[1]) = 1 /\ Abs(q[2] - r[2]) = 1

\* the label of the component that holds q
LabelOf(q) == CHOOSE k \in 1..Len(det.blobs) : q \in det.blobs[k]

\* no part of the blob is cut off from the rest: every proper part has a
\* pixel that shares an edge with a pixel of the rest
EdgeConnected(blob) ==
    \A S \in SUBSET blob :
        (S # {} /\ S # blob) =>
            \E q \in S : \E r \in blob \ S : ShareEdge(q, r)

\* C28: the components are those of 4-connectivity: every foreground pixel is
\* in exactly one component, two foreground pixels that share an edge are in
\* the same one, and each component holds together through shared edges
\* alone, so that two pixels touching only by a corner are in different
\* components unless a chain of shared edges joins them.
C28_FourConnectivity ==
    det # NotRun =>
        /\ \A q \in Foreground :
              Cardinality({k \in 1..Len(det.blobs) : q \in det.blobs[k]}) = 1
        /\ \A k \in 1..Len(det.blobs) :
              /\ det.blobs[k] # {}
              /\ det.blobs[k] \subseteq Foreground
              /\ EdgeConnected(det.blobs[k])
        /\ \A q, r \in Foreground : ShareEdge(q, r) => LabelOf(q) = LabelOf(r)

\* C28 witness: two foreground pixels that touch only by a corner, in
\* different components that each yield a candidate, beside two that share an
\* edge.
C28_Witness ==
    /\ det # NotRun
    /\ \E q, r \in Foreground :
          /\ ShareCornerOnly(q, r)
          /\ LabelOf(q) # LabelOf(r)
          /\ {LabelOf(q), LabelOf(r)} \subseteq Passing
    /\ \E q, r \in Foreground : ShareEdge(q, r)
    /\ Len(det.returned) = 2

(***************************************************************************)
(* Claims about preprocess_image, checked under SpecCrop.                  *)
(***************************************************************************)
\* the margins leave a non-empty interior
NonEmptyInterior ==
    /\ param.crop_top + param.crop_bottom < frame.height
    /\ param.crop_left + param.crop_right < frame.width

\* C12 (as claimed): for non-negative margins, 0 included, that leave a
\* non-empty interior, preprocess_image returns a map of
\* height - crop_top - crop_bottom rows and width - crop_left - crop_right
\* columns.
C12_OutputIsTheInterior ==
    (blurred_image # NotRun /\ NonEmptyInterior) =>
        /\ blurred_image.status = "returned"
        /\ blurred_image.map.rows =
               frame.height - param.crop_top - param.crop_bottom
        /\ blurred_image.map.cols =
               frame.width - param.crop_left - param.crop_right

\* C13: when crop_top + crop_bottom >= height or crop_left + crop_right >=
\* width, preprocess_image raises an error; it returns no map, empty or not.
C13_EmptyInteriorRaises ==
    (blurred_image # NotRun /\ ~NonEmptyInterior) =>
        blurred_image.status = "cv2.error"

\* C13 witness: positive bottom and right margins, rows that overlap
\* (negative height) beside columns that leave an interior, and the error.
C13_Witness ==
    /\ blurred_image # NotRun /\ blurred_image.status = "cv2.error"
    /\ param.crop_bottom > 0 /\ param.crop_right > 0
    /\ param.crop_top + param.crop_bottom > frame.height
    /\ param.crop_left + param.crop_right < frame.width

(***************************************************************************)
(* Claims about the viewer, checked under SpecViewer.                      *)
(***************************************************************************)
\* the list is built: the figure is open or was closed
ListBuilt == viewer \in {"open", "closed"}

\* the names that are in the folder and in '_rejected' at once
InBoth == folder \cap rejected_folder

\* every image file of the two folders is in the list, once
EveryImageIsTracked ==
    /\ {images[k][1] : k \in 1..Len(images)} = folder \cup rejected_folder
    /\ Len(images) = Cardinality(folder \cup rejected_folder)

\* the index designates an image of the list
IndexInRange == idx \in 0..(Len(images) - 1)

\* each image is in one place only, the one its status names
StatusIsTheOnlyLocation ==
    \A k \in 1..Len(images) :
        IF images[k][2] = "main"
        THEN images[k][1] \in folder \ rejected_folder
        ELSE images[k][1] \in rejected_folder \ folder

\* each image is in the place its status names; an image of status 'main' is
\* nowhere else
StatusIsALocation ==
    \A k \in 1..Len(images) :
        IF images[k][2] = "main"
        THEN images[k][1] \in folder \ rejected_folder
        ELSE images[k][1] \in rejected_folder

\* accept on an image of status 'main' and reject on an image of status
\* 'rejected' leave the folders, the list and the index as they are
NothingToDo ==
    /\ viewer = "open"
    /\ \/ event' = "accept" /\ images[idx + 1][2] = "main"
       \/ event' = "reject" /\ images[idx + 1][2] = "rejected"

AcceptedOrRejectedAlready ==
    NothingToDo => UNCHANGED <<folder, rejected_folder, images, idx>>

\* no step puts a name in both places
NoNewDuplicate == InBoth' \subseteq InBoth

\* C30 (as claimed): after any sequence of events every image is in exactly
\* one of the folder and '_rejected', the one its status names; accept on a
\* 'main' image and reject on a 'rejected' one change nothing; the index
\* stays within 0..len(images)-1.
C30_ExactlyOneLocation ==
    /\ [](ListBuilt =>
            EveryImageIsTracked /\ IndexInRange /\ StatusIsTheOnlyLocation)
    /\ [][AcceptedOrRejectedAlready]_vars

\* C30 (amended): every image is in the place its status names, and nowhere
\* else unless a file of its name was in both places when the viewer started:
\* that image is listed once, as 'rejected', and the file in the folder stays
\* until the image is accepted; no event puts a name in both places.  The
\* rest as claimed.
C30_StatusMatchesLocation ==
    /\ [](ListBuilt =>
            EveryImageIsTracked /\ IndexInRange /\ StatusIsALocation)
    /\ [][AcceptedOrRejectedAlready /\ NoNewDuplicate]_vars

\* C30 witness: the last event was an accept, on the last image of the list,
\* which is in the folder; another image is rejected; a third name is still
\* in both places.
C30_Witness ==
    /\ viewer = "open"
    /\ event = "accept"
    /\ idx = Len(images) - 1
    /\ idx > 0
    /\ images[idx + 1][2] = "main"
    /\ \E k \in 1..Len(images) :
          images[k][2] = "rejected" /\ images[k][1] \notin InBoth
    /\ InBoth # {}

=============================================================================
